---- MODULE Spec2Model ----
(***************************************************************************)
(* Model of barter-data-rs: the WebSocket subscription validator           *)
(* (src/subscriber/validator.rs, WebSocketSubValidator::validate), the     *)
(* Coinbase subscribe requests (src/exchange/coinbase) and the Bitmex      *)
(* trade deserialiser and transformer (src/exchange/bitmex/trade.rs).      *)
(*                                                                         *)
(* The validator is one cooperative task.  Its loop has two positions:     *)
(* "loop" (the threshold check at the top of the loop body) and "select"   *)
(* (suspended in tokio::select! on the sleep and on websocket.next()).     *)
(* The environment delivers frames, ends the stream and advances time.     *)
(* The run is observed until validate returns.                             *)
(* Time is discrete; the clock only advances while the task is suspended   *)
(* with neither branch of the select! ready, so a ready branch is taken    *)
(* at the instant it becomes ready (processing takes no time).             *)
(***************************************************************************)
EXTENDS Integers, Sequences, FiniteSets, TLC

\* ---------------------------------------------------------------- bounds
MaxFrames == 3      \* frames the transport delivers in one run
MaxExpected == 2    \* largest expected_responses
MaxTimeout == 2     \* largest subscription_timeout, in clock ticks
MaxIds == 2         \* distinct acknowledgement identities

\* The clock never has to stop before an armed sleep can expire: every
\* consumed frame re-arms the sleep at most once.
MaxTime == (MaxFrames + 1) * MaxTimeout

Ids == 1..MaxIds

\* ---------------------------------------------------------------- inputs
\* SubscriptionMap: SubscriptionId -> subscription metadata (instrument).
SubIds == {"sub_a"}
Maps == UNION {[S -> {"instrument"}] : S \in SUBSET SubIds}

\* Items the WebSocket stream can yield, by what the parser makes of them.
\*   ack_ok / ack_rejected : text payload that deserialises as SubResponse
\*   data                  : text payload that does not (early market data)
\*   ping                  : control frame (Ping, Pong, raw Frame)
\*   close                 : close frame
\*   ws_error              : Err(_) item of the transport
AckKinds == {"ack_ok", "ack_rejected"}
OtherKinds == {"data", "ping", "close", "ws_error"}
Frames == [kind : AckKinds, id : Ids] \cup [kind : OtherKinds, id : {0}]

VARIABLES
    map,                 \* the SubscriptionMap passed to validate
    timeout,             \* Exchange::subscription_timeout()
    expected_responses,  \* Exchange::expected_responses(&map)
    success_responses,   \* counter of successful Subscription outcomes
    pc,                  \* "loop" | "select" | "done"
    deadline,            \* expiry instant of the sleep of the current select!
    result,              \* value validate returned (tag "Pending" before)
    arrived,             \* every frame the transport delivered, in order
    pos,                 \* number of frames websocket.next() has yielded
    closed,              \* the transport stream has ended
    now,                 \* clock; the handshake starts at 0
    exchange_subs,       \* argument of Coinbase::requests
    ws_messages,         \* the Vec<WsMessage> Coinbase::requests returned
    payload,             \* a Bitmex trade payload as received, with the
                         \* ExchangeId and Instrument it is transformed for
    trades,              \* serde_json::from_str::<BitmexTradePayload> of it
    market_iter          \* MarketIter<PublicTrade>::from(..) of the trades

\* the state of the validator
vvars == <<map, timeout, expected_responses, success_responses, pc, deadline,
           result, arrived, pos, closed, now>>
\* the state of the Coinbase connector and of the Bitmex transformer
xvars == <<exchange_subs, ws_messages, payload, trades, market_iter>>

vars == <<vvars, xvars>>

\* ------------------------------------------------------------- results
\* the map slot of a result that carries no map
NoMap == [x \in {"no_map"} |-> "none"]
NoErr == [variant |-> "none", msg |-> "none", arg |-> 0]
Pending == [tag |-> "Pending", map |-> NoMap, err |-> NoErr]
Ok(m) == [tag |-> "Ok", map |-> m, err |-> NoErr]
Err(e) == [tag |-> "Err", map |-> NoMap, err |-> e]

\* variant of TimeoutError that drops the configured duration
TimeoutError_noDuration(t) == [variant |-> "Subscribe", msg |-> "subscription validation timeout reached", arg |-> 0]

\* SocketError::Subscribe(format!("subscription validation timeout reached: {:?}", timeout))
TimeoutError(t) == [variant |-> "Subscribe", msg |-> "subscription validation timeout reached", arg |-> t]

\* variant of TerminatedError that uses an error kind of its own
TerminatedError_ownKind == [variant |-> "Terminated", msg |-> "WebSocket stream terminated unexpectedly", arg |-> 0]

\* SocketError::Subscribe("WebSocket stream terminated unexpectedly")
TerminatedError == [variant |-> "Subscribe", msg |-> "WebSocket stream terminated unexpectedly", arg |-> 0]

\* SocketError::Subscribe(format!("received WebSocket CloseFrame: {close_frame}"))
CloseFrameError == [variant |-> "Subscribe", msg |-> "received WebSocket CloseFrame", arg |-> 0]

\* the error response.validate() returns for a rejected acknowledgement
RejectedError(id) == [variant |-> "Validate", msg |-> "subscription rejected", arg |-> id]

\* ------------------------------------------------------------- parsing
\* Self::Parser::parse::<Exchange::SubResponse>(response)
Parse(f) ==
    CASE f.kind \in AckKinds -> [tag |-> "SomeOk", variant |-> "none"]
      [] f.kind = "data"     -> [tag |-> "SomeErr", variant |-> "Deserialise"]
      [] f.kind = "close"    -> [tag |-> "SomeErr", variant |-> "Terminated"]
      [] f.kind = "ws_error" -> [tag |-> "SomeErr", variant |-> "WebSocket"]
      [] OTHER               -> [tag |-> "None", variant |-> "none"]

\* response.validate(): TRUE for Ok(response)
ValidateOk(f) == f.kind = "ack_ok"

\* variant of ThresholdMet comparing with > instead of ==
ThresholdMet_gt(s, n) == s > n

\* if success_responses == expected_responses
ThresholdMet(s, n) == s = n

\* ------------------------------------------------------------- initial
ValidatorInit ==
    /\ map \in Maps
    /\ timeout \in 1..MaxTimeout
    /\ expected_responses \in 0..MaxExpected
    /\ success_responses = 0
    /\ pc = "loop"
    /\ deadline = 0
    /\ result = Pending
    /\ arrived = <<>>
    /\ pos = 0
    /\ closed = FALSE
    /\ now = 0

\* nothing has been requested, received or transformed
NotRun == [tag |-> "NotRun", data |-> <<>>]
ConnectorIdle ==
    /\ exchange_subs = <<>>
    /\ ws_messages = <<>>
NoPayload == [exchange |-> "none", instrument |-> "none", data |-> <<>>]
TransformerIdle ==
    /\ payload = NoPayload
    /\ trades = NotRun
    /\ market_iter = NotRun

Init == ValidatorInit /\ ConnectorIdle /\ TransformerIdle

\* ------------------------------------------------------------- validator
\* break Ok(map)
Validated ==
    /\ pc = "loop"
    /\ ThresholdMet(success_responses, expected_responses)
    /\ result' = Ok(map)
    /\ pc' = "done"
    /\ UNCHANGED xvars
    /\ UNCHANGED <<map, timeout, expected_responses, success_responses,
                   deadline, arrived, pos, closed, now>>

\* variant of EnterSelect that waits before checking the threshold
EnterSelect_unguarded ==
    /\ pc = "loop"
    /\ pc' = "select"
    /\ deadline' = now + timeout
    /\ UNCHANGED xvars
    /\ UNCHANGED <<map, timeout, expected_responses, success_responses,
                   result, arrived, pos, closed, now>>

\* tokio::select! is entered: a new sleep(timeout) is created
EnterSelect ==
    /\ pc = "loop"
    /\ ~ThresholdMet(success_responses, expected_responses)
    /\ pc' = "select"
    /\ deadline' = now + timeout
    /\ UNCHANGED xvars
    /\ UNCHANGED <<map, timeout, expected_responses, success_responses,
                   result, arrived, pos, closed, now>>

\* variant of TimeoutFires that also takes the frame that lost the race
TimeoutFires_consumes ==
    /\ pc = "select"
    /\ now >= deadline
    /\ result' = Err(TimeoutError(timeout))
    /\ pc' = "done"
    /\ pos' = IF pos < Len(arrived) THEN pos + 1 ELSE pos
    /\ UNCHANGED xvars
    /\ UNCHANGED <<map, timeout, expected_responses, success_responses,
                   deadline, arrived, closed, now>>

\* _ = tokio::time::sleep(timeout) => break Err(..)
TimeoutFires ==
    /\ pc = "select"
    /\ now >= deadline
    /\ result' = Err(TimeoutError(timeout))
    /\ pc' = "done"
    /\ UNCHANGED xvars
    /\ UNCHANGED <<map, timeout, expected_responses, success_responses,
                   deadline, arrived, pos, closed, now>>

\* variant of StreamNone that reports the end of the stream as a timeout
StreamNone_asTimeout ==
    /\ pc = "select"
    /\ pos = Len(arrived)
    /\ closed
    /\ result' = Err(TimeoutError(timeout))
    /\ pc' = "done"
    /\ UNCHANGED xvars
    /\ UNCHANGED <<map, timeout, expected_responses, success_responses,
                   deadline, arrived, pos, closed, now>>

\* message = websocket.next() => None
StreamNone ==
    /\ pc = "select"
    /\ pos = Len(arrived)
    /\ closed
    /\ result' = Err(TerminatedError)
    /\ pc' = "done"
    /\ UNCHANGED xvars
    /\ UNCHANGED <<map, timeout, expected_responses, success_responses,
                   deadline, arrived, pos, closed, now>>

\* variant of OnFrame that skips a rejected acknowledgement
OnFrame_rejectedSkipped(f, s) ==
    LET p == Parse(f) IN
    CASE p.tag = "SomeOk" /\ ValidateOk(f) -> <<s + 1, "loop", Pending>>
      [] p.tag = "SomeErr" /\ p.variant = "Terminated" -> <<s, "done", Err(CloseFrameError)>>
      [] OTHER -> <<s, "loop", Pending>>

\* variant of OnFrame whose catch-all arm precedes the close-frame arm
OnFrame_closeSkipped(f, s) ==
    LET p == Parse(f) IN
    CASE p.tag = "SomeOk" /\ ValidateOk(f) -> <<s + 1, "loop", Pending>>
      [] p.tag = "SomeOk" /\ ~ValidateOk(f) -> <<s, "done", Err(RejectedError(f.id))>>
      [] OTHER -> <<s, "loop", Pending>>

\* variant of OnFrame that propagates a deserialisation error after a success
OnFrame_deserFatal(f, s) ==
    LET p == Parse(f) IN
    CASE p.tag = "SomeOk" /\ ValidateOk(f) -> <<s + 1, "loop", Pending>>
      [] p.tag = "SomeOk" /\ ~ValidateOk(f) -> <<s, "done", Err(RejectedError(f.id))>>
      [] p.tag = "SomeErr" /\ p.variant = "Deserialise" /\ s >= 1 ->
            <<s, "done", Err([variant |-> "Deserialise", msg |-> "payload", arg |-> 0])>>
      [] p.tag = "SomeErr" /\ p.variant = "Terminated" -> <<s, "done", Err(CloseFrameError)>>
      [] OTHER -> <<s, "loop", Pending>>

\* variant of OnFrame that counts every frame that parses as SubResponse
OnFrame_countsRejected(f, s) ==
    LET p == Parse(f) IN
    CASE p.tag = "SomeOk" -> <<s + 1, "loop", Pending>>
      [] p.tag = "SomeErr" /\ p.variant = "Terminated" -> <<s, "done", Err(CloseFrameError)>>
      [] OTHER -> <<s, "loop", Pending>>

\* variant of OnFrame whose success_responses >= 1 arm matches any Some(Err(_))
OnFrame_anyErrSkipped(f, s) ==
    LET p == Parse(f) IN
    CASE p.tag = "SomeOk" /\ ValidateOk(f) -> <<s + 1, "loop", Pending>>
      [] p.tag = "SomeOk" /\ ~ValidateOk(f) -> <<s, "done", Err(RejectedError(f.id))>>
      [] p.tag = "SomeErr" /\ s >= 1 -> <<s, "loop", Pending>>
      [] p.tag = "SomeErr" /\ p.variant = "Terminated" /\ s < 1 -> <<s, "done", Err(CloseFrameError)>>
      [] OTHER -> <<s, "loop", Pending>>

\* the match on the parsed frame: new <<success_responses, pc, result>>
OnFrame(f, s) ==
    LET p == Parse(f) IN
    CASE p.tag = "SomeOk" /\ ValidateOk(f) -> <<s + 1, "loop", Pending>>
      [] p.tag = "SomeOk" /\ ~ValidateOk(f) -> <<s, "done", Err(RejectedError(f.id))>>
      [] p.tag = "SomeErr" /\ p.variant = "Deserialise" /\ s >= 1 -> <<s, "loop", Pending>>
      [] p.tag = "SomeErr" /\ p.variant = "Terminated" -> <<s, "done", Err(CloseFrameError)>>
      [] OTHER -> <<s, "loop", Pending>>

\* message = websocket.next() => Some(response)
RecvFrame ==
    /\ pc = "select"
    /\ pos < Len(arrived)
    /\ LET out == OnFrame(arrived[pos + 1], success_responses) IN
        /\ success_responses' = out[1]
        /\ pc' = out[2]
        /\ result' = out[3]
    /\ pos' = pos + 1
    /\ UNCHANGED xvars
    /\ UNCHANGED <<map, timeout, expected_responses, deadline, arrived,
                   closed, now>>

\* ------------------------------------------------------------- environment
\* the transport delivers one more frame
Arrive ==
    /\ pc /= "done"
    /\ ~closed
    /\ Len(arrived) < MaxFrames
    /\ \E f \in Frames : arrived' = Append(arrived, f)
    /\ UNCHANGED xvars
    /\ UNCHANGED <<map, timeout, expected_responses, success_responses, pc,
                   deadline, result, pos, closed, now>>

\* the transport stream ends
StreamEnd ==
    /\ pc /= "done"
    /\ ~closed
    /\ closed' = TRUE
    /\ UNCHANGED xvars
    /\ UNCHANGED <<map, timeout, expected_responses, success_responses, pc,
                   deadline, result, arrived, pos, now>>

\* one unit of time passes while the task is suspended with nothing ready
Tick ==
    /\ pc = "select"
    /\ now < deadline
    /\ pos = Len(arrived)
    /\ ~closed
    /\ now < MaxTime
    /\ now' = now + 1
    /\ UNCHANGED xvars
    /\ UNCHANGED <<map, timeout, expected_responses, success_responses, pc,
                   deadline, result, arrived, pos, closed>>

Next ==
    \/ Validated
    \/ EnterSelect
    \/ TimeoutFires
    \/ StreamNone
    \/ RecvFrame
    \/ Arrive
    \/ StreamEnd
    \/ Tick

Spec == Init /\ [][Next]_vars

\* ------------------------------------------------------------- helpers
consumed == SubSeq(arrived, 1, pos)

TypeOK ==
    /\ map \in Maps
    /\ timeout \in 1..MaxTimeout
    /\ expected_responses \in 0..MaxExpected
    /\ success_responses \in 0..MaxExpected
    /\ pc \in {"idle", "subscribe", "loop", "select", "done"}
    /\ pos \in 0..Len(arrived)
    /\ Len(arrived) <= MaxFrames
    /\ now \in 0..MaxTime
    /\ closed \in BOOLEAN

\* positions of the valid acknowledgements among the frames of q
OkPositions(q) == {i \in 1..Len(q) : q[i].kind = "ack_ok"}
OkCount(q) == Cardinality(OkPositions(q))
\* positions of the rejected acknowledgements among the frames of q
RejectedPositions(q) == {i \in 1..Len(q) : q[i].kind = "ack_rejected"}

\* the frame the next websocket.next() would yield
HasPending == pos < Len(arrived)
NextFrame == arrived[pos + 1]
\* the validator task took a step (the environment did not)
ValidatorMoved == pc' /= pc

\* ------------------------------------------------------------- C1
\* C1: once validate has consumed exactly expected_responses valid
\* acknowledgements and returned, it returned Ok carrying the map it was
\* given, and the last frame it consumed is the N-th valid acknowledgement
\* (no frame when N = 0): every later frame is still in the stream.
C1_ValidatedAfterNAcks ==
    (pc = "done" /\ OkCount(consumed) = expected_responses) =>
        /\ result = Ok(map)
        /\ success_responses = expected_responses
        /\ IF expected_responses = 0
             THEN pos = 0
             ELSE pos > 0 /\ arrived[pos].kind = "ack_ok"

\* two acknowledgements in the order 2, 1 validated a handshake of two, and
\* the data frame that followed was left in the stream
C1_Witness ==
    /\ pc = "done"
    /\ result = Ok(map)
    /\ expected_responses = 2
    /\ pos = 2
    /\ arrived = <<[kind |-> "ack_ok", id |-> 2], [kind |-> "ack_ok", id |-> 1],
                   [kind |-> "data", id |-> 0]>>

\* ------------------------------------------------------------- C2
\* C2: the timeout bounds the whole handshake: while validate has not
\* returned, no more than subscription_timeout has passed since it started
\* (the handshake starts at instant 0).
C2_TimeoutBoundsHandshake ==
    pc /= "done" => now <= timeout

\* ------------------------------------------------------------- C3
\* C3: as soon as a rejected acknowledgement is among the consumed frames,
\* validate has returned Err with the validation error of that frame, and
\* that frame is the last one consumed.
C3_RejectedAborts ==
    \A i \in RejectedPositions(consumed) :
        /\ pc = "done"
        /\ result = Err(RejectedError(arrived[i].id))
        /\ pos = i

\* a rejection after a valid acknowledgement and a skipped data frame
C3_Witness ==
    /\ pos = 3
    /\ arrived[1].kind = "ack_ok"
    /\ arrived[2].kind = "data"
    /\ arrived[3] = [kind |-> "ack_rejected", id |-> 2]
    /\ result = Err(RejectedError(2))

\* ------------------------------------------------------------- C4
\* C4: when validate has returned without receiving any frame, the stream
\* still open and at least subscription_timeout elapsed, it returned the
\* timeout failure carrying the configured duration (so never Ok).
C4_TimeoutWithoutFrames ==
    (pc = "done" /\ pos = 0 /\ ~closed /\ now >= timeout) =>
        /\ result.tag = "Err"
        /\ result.map = NoMap
        /\ result.err.msg = "subscription validation timeout reached"
        /\ result.err.arg = timeout

\* the longest timeout expired with no frame ever delivered
C4_Witness ==
    /\ pc = "done"
    /\ arrived = <<>>
    /\ ~closed
    /\ timeout = MaxTimeout
    /\ now = timeout
    /\ result.tag = "Err"

\* ------------------------------------------------------------- C5
\* C5: with success_responses = 0, consuming a frame that does not parse as
\* SubResponse leaves the validator in its loop, nothing returned, the
\* counter still 0 and below the threshold; except a close frame, on which
\* validate returns the close-frame failure.  And with expected_responses = 1
\* the consumed sequence <<ping, valid ack>> gives success_responses = 1 and
\* no return value other than Ok(map).
C5_Scenario ==
    (expected_responses = 1 /\ pos = 2 /\ arrived[1].kind = "ping"
        /\ arrived[2].kind = "ack_ok") =>
            /\ success_responses = 1
            /\ pc \in {"loop", "done"}
            /\ pc = "done" => result = Ok(map)

C5_Step ==
    (pc = "select" /\ success_responses = 0 /\ pos' = pos + 1
        /\ Parse(NextFrame).tag /= "SomeOk") =>
            IF NextFrame.kind = "close"
              THEN pc' = "done" /\ result' = Err(CloseFrameError)
                   /\ success_responses' = 0
              ELSE pc' = "loop" /\ result' = Pending
                   /\ success_responses' = 0
                   /\ success_responses' /= expected_responses

C5_NoiseBeforeSuccess == [](C5_Scenario) /\ [][C5_Step]_vars

\* a close frame consumed before any success ended the handshake
C5_Witness ==
    /\ success_responses = 0
    /\ pos = 2
    /\ arrived[1].kind = "data"
    /\ arrived[2].kind = "close"
    /\ result = Err(CloseFrameError)

\* ------------------------------------------------------------- C6
\* C6: with 1 <= success_responses < expected_responses, consuming a frame
\* that fails to deserialise as SubResponse changes neither the counter nor
\* the map, returns nothing and puts the validator back at the top of its
\* loop below the threshold, so that the next frame is awaited.
C6_DeserialiseSkipped ==
    [][(pc = "select" /\ success_responses >= 1 /\ pos' = pos + 1
          /\ Parse(NextFrame).variant = "Deserialise") =>
              /\ success_responses' = success_responses
              /\ map' = map
              /\ result' = Pending
              /\ pc' = "loop"
              /\ success_responses' < expected_responses]_vars

\* a data frame was skipped between two acknowledgements
C6_Witness ==
    /\ expected_responses = 2
    /\ success_responses = 1
    /\ pos = 2
    /\ arrived[1].kind = "ack_ok"
    /\ arrived[2].kind = "data"
    /\ pc = "select"
    /\ result = Pending

\* ------------------------------------------------------------- C7
\* C7: when the validator leaves its wait with the stream ended and every
\* delivered frame consumed, it returns a failure with the counter
\* untouched, and unless the sleep has expired as well that failure is
\* the stream-terminated one, whatever success_responses is.
C7_StreamEndFails ==
    [][(pc = "select" /\ closed /\ ~HasPending /\ ValidatorMoved) =>
          /\ pc' = "done"
          /\ success_responses' = success_responses
          /\ result' \in {Err(TerminatedError), Err(TimeoutError(timeout))}
          /\ now < deadline => result' = Err(TerminatedError)]_vars

\* the stream ended after one success and one skipped frame
C7_Witness ==
    /\ result = Err(TerminatedError)
    /\ success_responses = 1
    /\ expected_responses = 2
    /\ pos = 2
    /\ \E i \in 1..2 : arrived[i].kind \in {"data", "ping", "ws_error"}

\* ------------------------------------------------------------- C8
\* the step on which next() yielded None: the stream has ended, nothing is
\* pending, the sleep has not expired
StreamNoneStep ==
    pc = "select" /\ closed /\ ~HasPending /\ now < deadline /\ ValidatorMoved
\* the step on which the sleep won: the stream can still yield
TimeoutStep ==
    pc = "select" /\ ~(closed /\ ~HasPending) /\ pos' = pos /\ ValidatorMoved

\* C8 (as stated): the failure returned when the stream ends is of a
\* different error kind than the failure returned on timeout.
C8_DistinctKinds ==
    [][StreamNoneStep =>
          result'.err.variant /= TimeoutError(timeout).variant]_vars

\* C8 (amended): the stream-ended failure and the timeout failure are of
\* the same error kind, Subscribe; they differ in their message only.
C8_SameKindDistinctMessage ==
    [][/\ StreamNoneStep =>
            /\ result'.tag = "Err"
            /\ result'.err.variant = "Subscribe"
            /\ result'.err.variant = TimeoutError(timeout).variant
            /\ result'.err.msg /= TimeoutError(timeout).msg
       /\ TimeoutStep =>
            /\ result'.tag = "Err"
            /\ result'.err.variant = "Subscribe"
            /\ result'.err.variant = TerminatedError.variant
            /\ result'.err.msg /= TerminatedError.msg]_vars

\* the stream ended before the sleep expired and validate returned
C8_Witness ==
    /\ pc = "done"
    /\ closed
    /\ ~HasPending
    /\ now < deadline
    /\ result = Err(TerminatedError)

\* ------------------------------------------------------------- C9
\* C9: from the top of the loop with success_responses equal to
\* expected_responses the only step of the validator returns Ok(map),
\* consuming no frame and letting no time pass, whatever is pending; and
\* with expected_responses = 0 validate returns Ok having consumed nothing.
C9_Step ==
    (pc = "loop" /\ success_responses = expected_responses
        /\ <<pc, result, pos, success_responses, deadline, now>>'
              /= <<pc, result, pos, success_responses, deadline, now>>) =>
            /\ pc' = "done"
            /\ result' = Ok(map)
            /\ pos' = pos
            /\ now' = now
            /\ success_responses' = success_responses

C9_Zero ==
    (expected_responses = 0 /\ pc = "done") => (result = Ok(map) /\ pos = 0)

C9_ThresholdPriority == [](C9_Zero) /\ [][C9_Step]_vars

\* Ok was returned although the sleep had expired, the stream had ended and
\* a rejection was the next frame
C9_Witness ==
    /\ result = Ok(map)
    /\ success_responses >= 1
    /\ now >= deadline
    /\ closed
    /\ HasPending
    /\ NextFrame.kind = "ack_rejected"

\* ------------------------------------------------------------- C10
\* C10: when the sleep has expired and a frame is pending, the step of the
\* validator is one of two: the timeout failure is returned with the counter
\* and the stream position unchanged, or exactly the pending frame is
\* consumed and handled and the result is not the timeout failure.
C10_RaceExclusive ==
    [][(pc = "select" /\ now >= deadline /\ HasPending /\ ValidatorMoved) =>
          \/ /\ result' = Err(TimeoutError(timeout))
             /\ pc' = "done"
             /\ pos' = pos
             /\ success_responses' = success_responses
          \/ /\ pos' = pos + 1
             /\ result' /= Err(TimeoutError(timeout))
             /\ \/ NextFrame.kind = "ack_ok"
                     /\ success_responses' = success_responses + 1
                     /\ result' = Pending
                \/ NextFrame.kind = "ack_rejected"
                     /\ success_responses' = success_responses
                     /\ result' = Err(RejectedError(NextFrame.id))
                \/ NextFrame.kind = "close"
                     /\ success_responses' = success_responses
                     /\ result' = Err(CloseFrameError)
                \/ NextFrame.kind \in {"data", "ping", "ws_error"}
                     /\ success_responses' = success_responses
                     /\ result' = Pending]_vars

\* the timeout won the race: a frame is still pending after the return
C10_Witness ==
    /\ result = Err(TimeoutError(timeout))
    /\ HasPending
    /\ pos = 1
    /\ success_responses = 1
    /\ NextFrame.kind = "ack_ok"

\* ------------------------------------------------------------- unbounded runs
\* The same loop on a stream that never has to end: a consumed frame is
\* dropped from `arrived` (which then holds the pending frames only, pos
\* staying 0) and the clock is counted from the instant the current sleep
\* was armed, so that a run can go on for ever in a finite state space.

\* tokio::select! is entered: a new sleep(timeout) is created
EnterSelectLive ==
    /\ pc = "loop"
    /\ ~ThresholdMet(success_responses, expected_responses)
    /\ pc' = "select"
    /\ now' = 0
    /\ deadline' = timeout
    /\ UNCHANGED xvars
    /\ UNCHANGED <<map, timeout, expected_responses, success_responses,
                   result, arrived, pos, closed>>

\* message = websocket.next() => Some(response)
RecvFrameLive ==
    /\ pc = "select"
    /\ pos < Len(arrived)
    /\ LET out == OnFrame(arrived[pos + 1], success_responses) IN
        /\ success_responses' = out[1]
        /\ pc' = out[2]
        /\ result' = out[3]
    /\ arrived' = Tail(arrived)
    /\ UNCHANGED xvars
    /\ UNCHANGED <<map, timeout, expected_responses, deadline, pos,
                   closed, now>>

LiveNext ==
    \/ Validated
    \/ EnterSelectLive
    \/ TimeoutFires
    \/ StreamNone
    \/ RecvFrameLive
    \/ Arrive
    \/ StreamEnd
    \/ Tick

\* The executor polls the task whenever a branch of its select! is ready or
\* it can run, and the timer makes progress whenever the task is suspended.
LiveSpec ==
    /\ Init
    /\ [][LiveNext]_vars
    /\ WF_vars(Validated)
    /\ WF_vars(EnterSelectLive)
    /\ WF_vars(TimeoutFires)
    /\ WF_vars(StreamNone)
    /\ WF_vars(RecvFrameLive)
    /\ WF_vars(Tick)

\* ------------------------------------------------------------- C11
\* C11: every handshake terminates: on every frame stream, an endless stream
\* of skipped noise included, validate eventually returns (Ok or Err),
\* given that the task is scheduled and the timer makes progress: on no
\* run does time keep advancing for ever without validate returning.
C11_Terminates == ([]<><<Tick>>_vars) => <>(pc = "done")

\* ------------------------------------------------------------- C12
\* C12: an inbound item that the parser reports as an error other than a
\* deserialisation failure (a close frame, a transport error) is not
\* skipped: the step that consumes it makes validate return a failure.
C12_ErrorsNotDropped ==
    [][(pc = "select" /\ pos' = pos + 1
          /\ Parse(NextFrame).tag = "SomeErr"
          /\ Parse(NextFrame).variant /= "Deserialise") =>
              (pc' = "done" /\ result'.tag = "Err")]_vars

\* ------------------------------------------------------------- C19
\* C19: success_responses stays within 0..expected_responses, never
\* decreases and changes only by +1 on the step that consumes a frame which
\* parses and validates as SubResponse; Ok is returned only with
\* success_responses = expected_responses, and an Err result carries no map.
C19_State ==
    /\ 0 <= success_responses
    /\ success_responses <= expected_responses
    /\ result.tag = "Ok" =>
          (success_responses = expected_responses /\ result.map = map)
    /\ result.tag = "Err" => (result.map = NoMap /\ result.map /= map)

C19_Step ==
    /\ success_responses' >= success_responses
    /\ success_responses' /= success_responses =>
          /\ success_responses' = success_responses + 1
          /\ pc = "select"
          /\ pos' = pos + 1
          /\ NextFrame.kind = "ack_ok"

C19_CounterInvariant == [](C19_State) /\ [][C19_Step]_vars

\* a handshake of two failed on a rejection after one counted success
C19_Witness ==
    /\ expected_responses = 2
    /\ success_responses = 1
    /\ pos = 2
    /\ arrived[2].kind = "ack_rejected"
    /\ result.tag = "Err"
    /\ result.map = NoMap

\* ------------------------------------------------------------- C20
\* C20: the reaction to a consumed frame is the same for
\* success_responses = 0 and for success_responses >= 1: a deserialisation
\* failure is skipped with the counter and the result unchanged, and a close
\* frame makes validate return the close-frame failure.
C20_ClassDecides ==
    [][(pc = "select" /\ pos' = pos + 1) =>
          /\ Parse(NextFrame).variant = "Deserialise" =>
                /\ pc' = "loop"
                /\ result' = Pending
                /\ success_responses' = success_responses
          /\ NextFrame.kind = "close" =>
                /\ pc' = "done"
                /\ result' = Err(CloseFrameError)
                /\ success_responses' = success_responses]_vars

\* a data frame was skipped before any success and a close frame aborted
\* the handshake after one
C20_Witness ==
    /\ pos = 3
    /\ arrived[1].kind = "data"
    /\ arrived[2].kind = "ack_ok"
    /\ arrived[3].kind = "close"
    /\ success_responses = 1
    /\ result = Err(CloseFrameError)

\* ------------------------------------------------------------- Bitmex trades
MaxBatch == 2       \* records in the "data" of one payload

BoundedSeq(S, n) == UNION {[1..k -> S] : k \in 0..n}

\* The value of a record's "timestamp": an RFC3339 string
\* "2023-02-18T<hour>:27:59.701+<offset>:00" (offset 0 is written Z), some
\* other string, or a JSON number.
Hours == {9, 10}
Offsets == {0, 1}
TimestampValues ==
    [kind : {"rfc3339"}, hour : Hours, offset : Offsets]
        \cup [kind : {"text", "number"}, hour : {0}, offset : {0}]

\* "2023-02-18T09:27:59.701Z"
TimestampLiteral == [kind |-> "rfc3339", hour |-> 9, offset |-> 0]

Sides == {"Buy", "Sell"}
TradeIds == {"trade_1", "trade_2"}
Instruments == {"xbt_usd", "eth_usd"}

\* one element of "data" as JSON; has_price = FALSE: the "price" key is absent
RawTrades ==
    [timestamp : TimestampValues, symbol : {"XBTUSD"}, side : Sides,
     size : {200}, price : {24564}, has_price : BOOLEAN, trdMatchID : TradeIds]

\* DateTime::parse_from_rfc3339: the instant, in minutes of 2023-02-18 UTC
ParseFromRfc3339(v) ==
    IF v.kind = "rfc3339"
      THEN [tag |-> "Ok", instant |-> (v.hour - v.offset) * 60 + 27]
      ELSE [tag |-> "Err", instant |-> 0]

\* de_str_datetime_as_datetime_utc
de_str_datetime_as_datetime_utc(v) ==
    IF v.kind = "number"
      THEN [tag |-> "Err", instant |-> 0]
      ELSE LET custom == ParseFromRfc3339(TimestampLiteral) IN
           IF custom.tag = "Ok"
             THEN [tag |-> "Ok", instant |-> custom.instant]
             ELSE [tag |-> "Err", instant |-> 0]

\* #[derive(Deserialize)] struct BitmexTrade
NoTrade ==
    [timestamp |-> 0, symbol |-> "", side |-> "", amount |-> 0, price |-> 0,
     id |-> ""]
DeBitmexTrade(raw) ==
    LET ts == de_str_datetime_as_datetime_utc(raw.timestamp) IN
    IF ts.tag = "Err" \/ ~raw.has_price
      THEN [tag |-> "Err", trade |-> NoTrade]
      ELSE [tag |-> "Ok",
            trade |-> [timestamp |-> ts.instant, symbol |-> raw.symbol,
                       side |-> raw.side, amount |-> raw.size,
                       price |-> raw.price, id |-> raw.trdMatchID]]

\* serde_json::from_str::<BitmexTradePayload>: the whole payload or an error
DeBitmexTradePayload(raws) ==
    IF \E i \in 1..Len(raws) : DeBitmexTrade(raws[i]).tag = "Err"
      THEN [tag |-> "Err", data |-> <<>>]
      ELSE [tag |-> "Ok", data |-> [i \in 1..Len(raws) |-> DeBitmexTrade(raws[i]).trade]]

\* the MarketEvent built for one trade; received is the reading of Utc::now()
MarketEventOf(exchange_id, instrument, trade, received) ==
    [tag |-> "Ok",
     event |-> [exchange_time |-> trade.timestamp,
                received_time |-> received,
                exchange |-> exchange_id,
                instrument |-> instrument,
                kind |-> [id |-> trade.id, price |-> trade.price,
                          amount |-> trade.amount, side |-> trade.side]]]

\* variant of MarketIterFrom that collects the events in reverse order
MarketIterFrom_reversed(exchange_id, instrument, data, received) ==
    [tag |-> "Iter",
     data |-> [i \in 1..Len(data) |->
                 MarketEventOf(exchange_id, instrument,
                               data[Len(data) + 1 - i], received)]]

\* impl From<(ExchangeId, Instrument, BitmexTradePayload)> for MarketIter<PublicTrade>
MarketIterFrom(exchange_id, instrument, data, received) ==
    [tag |-> "Iter",
     data |-> [i \in 1..Len(data) |->
                 MarketEventOf(exchange_id, instrument, data[i], received)]]

\* the validator is not running
ValidatorIdle ==
    /\ map = << >>
    /\ timeout = 1
    /\ expected_responses = 0
    /\ success_responses = 0
    /\ pc = "idle"
    /\ deadline = 0
    /\ result = Pending
    /\ arrived = <<>>
    /\ pos = 0
    /\ closed = FALSE
    /\ now = 0

BitmexInit ==
    /\ ValidatorIdle
    /\ ConnectorIdle
    /\ payload \in [exchange : {"Bitmex"}, instrument : Instruments,
                    data : BoundedSeq(RawTrades, MaxBatch)]
    /\ trades = NotRun
    /\ market_iter = NotRun

\* the frame is deserialised as BitmexTradePayload
Deserialise ==
    /\ trades = NotRun
    /\ trades' = DeBitmexTradePayload(payload.data)
    /\ UNCHANGED <<payload, market_iter, exchange_subs, ws_messages>>
    /\ UNCHANGED vvars

\* the deserialised payload is converted into a MarketIter
Transform ==
    /\ trades.tag = "Ok"
    /\ market_iter = NotRun
    /\ \E received \in {100, 101} :
          market_iter' = MarketIterFrom(payload.exchange, payload.instrument,
                                        trades.data, received)
    /\ UNCHANGED <<payload, trades, exchange_subs, ws_messages>>
    /\ UNCHANGED vvars

BitmexNext ==
    \/ Deserialise
    \/ Transform

BitmexSpec == BitmexInit /\ [][BitmexNext]_vars

\* the frame has been through the deserialiser and, if that accepted it,
\* through the transformer
Transformed == trades.tag = "Err" \/ market_iter.tag = "Iter"

\* ------------------------------------------------------------- C13
\* C13: the MarketIter built from a payload of k trades holds exactly k
\* events, all Ok, the i-th carrying the i-th trade's id, price, amount and
\* side, its timestamp as exchange_time, and the exchange and instrument
\* given to the conversion (no event for an empty batch).
C13_OneEventPerTrade ==
    market_iter.tag = "Iter" =>
        /\ Len(market_iter.data) = Len(trades.data)
        /\ \A i \in 1..Len(trades.data) :
              /\ market_iter.data[i].tag = "Ok"
              /\ market_iter.data[i].event.kind.id = trades.data[i].id
              /\ market_iter.data[i].event.kind.price = trades.data[i].price
              /\ market_iter.data[i].event.kind.amount = trades.data[i].amount
              /\ market_iter.data[i].event.kind.side = trades.data[i].side
              /\ market_iter.data[i].event.exchange_time = trades.data[i].timestamp
              /\ market_iter.data[i].event.exchange = payload.exchange
              /\ market_iter.data[i].event.instrument = payload.instrument

\* a batch of two different trades became two events
C13_Witness ==
    /\ market_iter.tag = "Iter"
    /\ Len(market_iter.data) = 2
    /\ market_iter.data[1].event.kind.id = "trade_2"
    /\ market_iter.data[1].event.kind.side = "Buy"
    /\ market_iter.data[2].event.kind.id = "trade_1"
    /\ market_iter.data[2].event.kind.side = "Sell"

\* ------------------------------------------------------------- C14
\* the records of the batch the deserialiser rejects
MalformedPositions ==
    {i \in 1..Len(payload.data) : DeBitmexTrade(payload.data[i]).tag = "Err"}

\* C14: a batch of k >= 1 well-formed records and one malformed record
\* yields, in the original order, an Ok event for each well-formed record
\* and one error element in the place of the malformed one.
C14_MalformedRecordIsolated ==
    (Transformed /\ Cardinality(MalformedPositions) = 1
        /\ Len(payload.data) >= 2) =>
        /\ market_iter.tag = "Iter"
        /\ Len(market_iter.data) = Len(payload.data)
        /\ \A i \in 1..Len(payload.data) :
              IF i \in MalformedPositions
                THEN market_iter.data[i].tag = "Err"
                ELSE /\ market_iter.data[i].tag = "Ok"
                     /\ market_iter.data[i].event.kind.id
                            = payload.data[i].trdMatchID

\* ------------------------------------------------------------- C15
\* C15: a deserialised BitmexTrade carries as timestamp the instant written
\* in the record's "timestamp" string, for every valid RFC3339 string.
C15_TimestampIsTheRecords ==
    trades.tag = "Ok" =>
        \A i \in 1..Len(payload.data) :
            payload.data[i].timestamp.kind = "rfc3339" =>
                trades.data[i].timestamp
                    = ParseFromRfc3339(payload.data[i].timestamp).instant

\* ------------------------------------------------------------- C18
\* C18: a record whose "timestamp" is a string that is not a valid RFC3339
\* date-time is not deserialised: the deserialiser returns an error.
C18_InvalidTimestampRejected ==
    (trades /= NotRun
        /\ \E i \in 1..Len(payload.data) :
              payload.data[i].timestamp.kind = "text") =>
            trades.tag = "Err"

\* ------------------------------------------------------------- Coinbase
MaxSubs == 2        \* ExchangeSubs in one call of Coinbase::requests

\* CoinbaseChannel(pub &'static str); CoinbaseChannel::TRADES is "matches"
CoinbaseChannels == {[inner |-> "matches"], [inner |-> "ticker"]}
\* CoinbaseMarket, a market in Coinbase's own format
CoinbaseMarkets == {[inner |-> "BTC-USD"], [inner |-> "ETH-USD"]}
\* ExchangeSub { channel, market }
ExchangeSubs == [channel : CoinbaseChannels, market : CoinbaseMarkets]

\* impl AsRef<str> for CoinbaseChannel
ChannelAsRef(channel) == channel.inner
\* impl AsRef<str> for CoinbaseMarket
MarketAsRef(market) == market.inner

\* variant of Requests that subscribes to every market in one message
Requests_batched(subs) ==
    IF subs = <<>> THEN <<>>
    ELSE <<[ws |-> "Text", type |-> "subscribe",
            product_ids |-> [i \in 1..Len(subs) |-> MarketAsRef(subs[i].market)],
            channels |-> [i \in 1..Len(subs) |-> ChannelAsRef(subs[i].channel)]]>>

\* variant of Requests that puts the channel where the product id belongs
Requests_swapped(subs) ==
    [i \in 1..Len(subs) |->
        [ws |-> "Text", type |-> "subscribe",
         product_ids |-> <<ChannelAsRef(subs[i].channel)>>,
         channels |-> <<MarketAsRef(subs[i].market)>>]]

\* Coinbase::requests
Requests(subs) ==
    [i \in 1..Len(subs) |->
        [ws |-> "Text", type |-> "subscribe",
         product_ids |-> <<MarketAsRef(subs[i].market)>>,
         channels |-> <<ChannelAsRef(subs[i].channel)>>]]

\* the SubscriptionMap of the requested subscriptions: one entry for each
\* distinct subscription
SubscriptionMapOf(subs) ==
    [sub \in {subs[i] : i \in 1..Len(subs)} |-> "instrument"]

\* Connector::expected_responses: one acknowledgement for each entry
ExpectedResponses(m) == Cardinality(DOMAIN m)

SubscribeInit ==
    /\ exchange_subs \in BoundedSeq(ExchangeSubs, MaxSubs)
    /\ ws_messages = <<>>
    /\ map = SubscriptionMapOf(exchange_subs)
    /\ expected_responses = ExpectedResponses(map)
    /\ timeout \in 1..MaxTimeout
    /\ success_responses = 0
    /\ pc = "subscribe"
    /\ deadline = 0
    /\ result = Pending
    /\ arrived = <<>>
    /\ pos = 0
    /\ closed = FALSE
    /\ now = 0
    /\ TransformerIdle

\* the subscribe messages are built and sent, then validate is called
SendRequests ==
    /\ pc = "subscribe"
    /\ ws_messages' = Requests(exchange_subs)
    /\ pc' = "loop"
    /\ UNCHANGED <<exchange_subs, payload, trades, market_iter>>
    /\ UNCHANGED <<map, timeout, expected_responses, success_responses,
                   deadline, result, arrived, pos, closed, now>>

\* the exchange acknowledges the next subscribe message it has not answered
AckArrive ==
    /\ pc \in {"loop", "select"}
    /\ Len(arrived) < Len(ws_messages)
    /\ arrived' = Append(arrived, [kind |-> "ack_ok",
                                   id |-> (Len(arrived) % MaxIds) + 1])
    /\ UNCHANGED xvars
    /\ UNCHANGED <<map, timeout, expected_responses, success_responses, pc,
                   deadline, result, pos, closed, now>>

SubscribeNext ==
    \/ SendRequests
    \/ AckArrive
    \/ Validated
    \/ EnterSelect
    \/ TimeoutFires
    \/ RecvFrame
    \/ Tick

SubscribeSpec == SubscribeInit /\ [][SubscribeNext]_vars

\* ------------------------------------------------------------- C16
\* C16: when the messages built by Coinbase::requests have been sent and
\* validate has consumed one valid acknowledgement for each of them and
\* returned, it returned Ok(map) with success_responses equal to
\* expected_responses.
C16_RoundTrip ==
    (pc = "done" /\ pos = Len(ws_messages)) =>
        /\ result = Ok(map)
        /\ success_responses = expected_responses

\* two distinct subscriptions were requested, acknowledged and validated
C16_Witness ==
    /\ Len(exchange_subs) = 2
    /\ exchange_subs[1] /= exchange_subs[2]
    /\ Len(ws_messages) = 2
    /\ pos = 2
    /\ success_responses = 2
    /\ result = Ok(map)

\* ------------------------------------------------------------- C17
\* C17: Coinbase::requests turns a list of n ExchangeSubs into exactly n
\* subscribe text messages, the i-th naming the i-th sub's market as its
\* only product id and the i-th sub's channel as its only channel.
C17_OneMessagePerSub ==
    pc /= "subscribe" =>
        /\ Len(ws_messages) = Len(exchange_subs)
        /\ \A i \in 1..Len(exchange_subs) :
              /\ ws_messages[i].ws = "Text"
              /\ ws_messages[i].type = "subscribe"
              /\ ws_messages[i].product_ids = <<exchange_subs[i].market.inner>>
              /\ ws_messages[i].channels = <<exchange_subs[i].channel.inner>>

\* two subs on different markets and channels became two messages
C17_Witness ==
    /\ pc /= "subscribe"
    /\ Len(ws_messages) = 2
    /\ ws_messages[1].product_ids = <<"ETH-USD">>
    /\ ws_messages[1].channels = <<"matches">>
    /\ ws_messages[2].product_ids = <<"BTC-USD">>
    /\ ws_messages[2].channels = <<"ticker">>

====
